---- MODULE Spec2Model ----
(***************************************************************************)
(* Model of src/js/core/methods/composetx.js: the "composetx" method, a    *)
(* session that discovers accounts, composes a transaction for every fee   *)
(* level, lets the user pick an account and a fee through the popup, signs *)
(* the chosen transaction with the device and optionally broadcasts it.    *)
(*                                                                         *)
(* One step of the model is one run of the method between two awaits, or   *)
(* one callback of the discovery, or one answer of the popup.              *)
(*                                                                         *)
(* params, which validates the request before any session, is the operator *)
(* of the same name; ParamsSpec calls it on a bounded set of requests.     *)
(*                                                                         *)
(* Left out of the records: the fields the method only copies to the popup *)
(* (coinInfo, segwit, balance, fresh, estimated minutes).                  *)
(***************************************************************************)
EXTENDS Integers, Sequences, FiniteSets, Bags, TLC

VARIABLES
    raw,                \* the request params is called with (line 338)
    methodParams,       \* what params answered: the MethodParams returned, or the error thrown
    input,              \* params.input: [total, pushTransaction]
    pc,                 \* where the method is suspended
    accounts,           \* let accounts (line 93)
    discoveryCompleted, \* let discoveryCompleted (line 94)
    selectedAccount,    \* let selectedAccount (line 183)
    txComposer,         \* let txComposer (line 184): [defined, account, composed]
    uiPromise,          \* callbacks.getUiPromise(): pending, or rejected by onError
    uiResponse,         \* const uiResponse (line 256): the event of the popup's latest answer
    discoveries,        \* the bag of the running discovery producers, each [all, pending]
    view,               \* the view of the popup: the last SELECT_ACCOUNT,
                        \* INSUFFICIENT_FUNDS or SELECT_FEE posted
    feeList,            \* the rows of the fee view: the last SELECT_FEE list, its last
                        \* row replaced by each later UPDATE_CUSTOM_FEE
    posted,             \* the messages posted by the latest step
    tx,                 \* const tx (line 303): the result of composingCycle
    signedtx,           \* const signedtx (line 309)
    outcome,            \* how the promise returned by method settled
    minFeeCalls,        \* calls of txComposer.compose(coinInfo.minFee) in this selection
    signTxCalls,        \* calls of device.getCommands().signTx
    sendCalls,          \* calls of backend.sendTransactionHex
    disposeCalls        \* calls of backend.dispose

vars == <<raw, methodParams, input, pc, accounts, discoveryCompleted, selectedAccount, txComposer,
          uiPromise, uiResponse, discoveries, view, feeList, posted, tx, signedtx, outcome,
          minFeeCalls, signTxCalls, sendCalls, disposeCalls>>

----------------------------------------------------------------------------
(* Bounds of the model *)

\* the discovery finds at most this many accounts
MaxAccounts == 1
\* at most this many discovery producers run at once
MaxProducers == 2
\* a request has at most this many outputs
MaxOutputs == 2

(* Program constants *)

\* coinInfo.minFee
MinFee == 1
\* the size of a composed transaction, in bytes
TxBytes == 2
\* the amount of the request when it has no send-max output
Amount == 5

\* the configured fee levels, the custom one last
FeeLevels ==
    << [name |-> "high", feePerByte |-> 4],
       [name |-> "custom", feePerByte |-> 0] >>

----------------------------------------------------------------------------
(* Values *)

Undefined == [type |-> "undefined"]

\* new Error(message)
Error(message) == [name |-> "Error", message |-> message]
TypeError == [name |-> "TypeError", message |-> "Cannot read property of undefined"]

\* { ...a, ...b }: the fields of b override those of a
Spread(a, b) == b @@ a

\* parseInt on a string of characters: a sign and the leading decimal digits, NaN
\* without a digit
Digits == <<"0", "1", "2", "3", "4", "5", "6", "7", "8", "9">>
IsDigit(c) == \E d \in 1..10 : Digits[d] = c
DigitValue(c) == (CHOOSE d \in 1..10 : Digits[d] = c) - 1
RECURSIVE ParseDigits(_, _)
ParseDigits(s, acc) ==
    IF s = <<>> \/ ~IsDigit(Head(s)) THEN acc
    ELSE ParseDigits(Tail(s), acc * 10 + DigitValue(Head(s)))
NaN == [nan |-> TRUE, n |-> 0]
Number(n) == [nan |-> FALSE, n |-> n]
parseInt(s) ==
    LET signed == s # <<>> /\ Head(s) \in {"-", "+"}
        digits == IF signed THEN Tail(s) ELSE s
    IN IF digits = <<>> \/ ~IsDigit(Head(digits)) THEN NaN
       ELSE IF signed /\ Head(s) = "-" THEN Number(0 - ParseDigits(digits, 0))
       ELSE Number(ParseDigits(digits, 0))

\* array[index] of JavaScript, index a result of parseInt: undefined outside the array
At(array, index) ==
    IF ~index.nan /\ index.n + 1 \in 1..Len(array) THEN array[index.n + 1] ELSE Undefined

\* array[array.length] = value: the value is appended
SetLastAppends(array, value) == Append(array, value)

\* array[array.length - 2] = value: the slot before the last is written
SetLastOffByOne(array, value) ==
    IF Len(array) < 2 THEN array ELSE [array EXCEPT ![Len(array) - 1] = value]

\* array[array.length - 1] = value
SetLast(array, value) ==
    IF Len(array) = 0 THEN array ELSE [array EXCEPT ![Len(array)] = value]

----------------------------------------------------------------------------
(* Messages to the popup *)

\* new UiMessage(UI.SET_OPERATION, `Send ${ formatAmount(amount, coinInfo) }`)
SetOperation(text, amount) == [type |-> "SET_OPERATION", text |-> text, amount |-> amount]

----------------------------------------------------------------------------
(* Accounts and the discovery *)

\* the account with this id, its info known or not
Account(id, info) == [id |-> id, info |-> info]

simpleAccount(account) ==
    [id |-> account.id, label |-> account.id + 1, discovered |-> account.info]

MapSimpleAccount(all) == [i \in 1..Len(all) |-> simpleAccount(all[i])]

SelectAccountMessage(sAccounts, complete) ==
    [type |-> "SELECT_ACCOUNT", accounts |-> sAccounts, complete |-> complete]

\* a producer that knows these accounts and has announced no further one
Producer(known) == [all |-> known, pending |-> FALSE]

\* discover({accounts, ...}): one more producer, working from the accounts given
discover(known) == discoveries (+) SetToBag({Producer(known)})

\* stopDiscovering(): no producer goes on
stopDiscovering == EmptyBag

\* the producer p ends
Ended(p) == discoveries (-) SetToBag({p})

\* the producer p goes on as q
Becomes(p, q) == (discoveries (-) SetToBag({p})) (+) SetToBag({q})

----------------------------------------------------------------------------
(* Composition *)

\* a transaction composed at this fee rate
Final(feePerByte) ==
    [type |-> "final", feePerByte |-> feePerByte, bytes |-> TxBytes,
     fee |-> feePerByte * TxBytes,
     totalSpent |-> input.total + feePerByte * TxBytes]

ComposeError(error) == [type |-> "error", error |-> error]

\* what txComposer.compose(feePerByte) may answer, composeAllLevels having answered no
\* TWO-SEND-MAX for the same outputs
ComposeResults(feePerByte) == {Final(feePerByte), ComposeError("NOT-ENOUGH-FUNDS")}

\* what composeAllLevels may answer for the level of this fee rate
BuildTxResults(feePerByte) == ComposeResults(feePerByte) \cup {ComposeError("TWO-SEND-MAX")}

\* what composing the first n fee levels may answer: one result for each, in their order
RECURSIVE LevelsResults(_)
LevelsResults(n) ==
    IF n = 0 THEN {<<>>}
    ELSE {Append(txs, t) : txs \in LevelsResults(n - 1),
                           t \in BuildTxResults(FeeLevels[n].feePerByte)}

\* what composeAllLevels may answer
AllLevelsResults == LevelsResults(Len(FeeLevels))

simpleTxResult(level, t) ==
    IF t.type = "final"
    THEN [name |-> level.name, fee |-> t.fee, bytes |-> t.bytes, feePerByte |-> t.feePerByte]
    ELSE [name |-> level.name, fee |-> 0]

NoComposer == [defined |-> FALSE, account |-> Undefined, composed |-> <<>>]

----------------------------------------------------------------------------
(* The popup's answers *)

\* the decimal string of a small number
NumberString(n) == <<Digits[n + 1]>>

\* the answers to the account view: the rows 0..MaxAccounts and a text that is no number
AccountData == {NumberString(n) : n \in 0..MaxAccounts} \cup {<<"a">>}
\* the answers to the fee view
FeeIndexData == {NumberString(n) : n \in 0..Len(FeeLevels)} \cup {<<"a">>}
CustomFeeData == {<<"1", "0">>}

\* an answer's data: an object {type, value}, or a string (type "undefined", the string
\* as value)
UiResponses ==
    [event : {"RECEIVE_ACCOUNT"}, data : [type : {"undefined"}, value : AccountData]]
    \cup [event : {"RECEIVE_FEE"}, data : [type : {"fee"}, value : FeeIndexData]]
    \cup [event : {"RECEIVE_FEE"}, data : [type : {"custom"}, value : CustomFeeData]]
    \cup [event : {"RECEIVE_FEE"}, data : [type : {"other"}, value : {<<"0">>}]]
    \cup [event : {"CHANGE_ACCOUNT"}, data : [type : {"undefined"}, value : {<<>>}]]
    \cup [event : {"RECEIVE_PIN"}, data : [type : {"undefined"}, value : {<<"1">>}]]

Pending == [state |-> "pending"]
Rejected(error) == [state |-> "rejected", error |-> error]

----------------------------------------------------------------------------
(* The session after method has run to its first wait (lines 72-151, 303) *)

StartMessages ==
    (IF input.total > 0 THEN <<SetOperation("Send", Number(input.total))>> ELSE <<>>)
    \o <<SelectAccountMessage(<<>>, FALSE)>>

Init ==
    /\ raw = Undefined
    /\ methodParams = Undefined
    /\ input \in [total : {0, Amount}, pushTransaction : BOOLEAN]
    /\ pc = "await_ui"
    /\ accounts = <<>>
    /\ discoveryCompleted = FALSE
    /\ selectedAccount = Undefined
    /\ txComposer = NoComposer
    /\ uiPromise = Pending
    /\ uiResponse = Undefined
    /\ discoveries = SetToBag({Producer(<<>>)})
    /\ view = SelectAccountMessage(<<>>, FALSE)
    /\ feeList = <<>>
    /\ posted = StartMessages
    /\ tx = Undefined
    /\ signedtx = Undefined
    /\ outcome = [status |-> "pending"]
    /\ minFeeCalls = 0
    /\ signTxCalls = 0
    /\ sendCalls = 0
    /\ disposeCalls = 0

----------------------------------------------------------------------------
(* The callbacks of the discovery (lines 97-139) *)

\* onStart(newAccount, allAccounts): a row for the account whose info is not known yet
onStart(p) ==
    /\ BagIn(p, discoveries)
    /\ ~p.pending
    /\ Len(p.all) < MaxAccounts
    /\ LET allAccounts == p.all
           newAccount == Account(Len(allAccounts), FALSE)
           sAccounts == Append(MapSimpleAccount(allAccounts), simpleAccount(newAccount))
       IN /\ view' = SelectAccountMessage(sAccounts, FALSE)
          /\ posted' = <<SelectAccountMessage(sAccounts, FALSE)>>
    /\ discoveries' = Becomes(p, [p EXCEPT !.pending = TRUE])
    /\ UNCHANGED <<raw, methodParams, input, pc, accounts, discoveryCompleted, selectedAccount, txComposer,
                   uiPromise, uiResponse, feeList, tx, signedtx, outcome,
                   minFeeCalls, signTxCalls, sendCalls, disposeCalls>>

\* onUpdate(newAccount, allAccounts): the info of the account arrived
onUpdate(p) ==
    /\ BagIn(p, discoveries)
    /\ p.pending
    /\ LET allAccounts == Append(p.all, Account(Len(p.all), TRUE))
       IN /\ accounts' = allAccounts
          /\ view' = SelectAccountMessage(MapSimpleAccount(allAccounts), FALSE)
          /\ posted' = <<SelectAccountMessage(MapSimpleAccount(allAccounts), FALSE)>>
          /\ discoveries' = Becomes(p, Producer(allAccounts))
    /\ UNCHANGED <<raw, methodParams, input, pc, discoveryCompleted, selectedAccount, txComposer,
                   uiPromise, uiResponse, feeList, tx, signedtx, outcome,
                   minFeeCalls, signTxCalls, sendCalls, disposeCalls>>

\* onComplete(allAccounts): the discovery is over
onComplete(p) ==
    /\ BagIn(p, discoveries)
    /\ ~p.pending
    /\ Len(p.all) >= 1
    /\ discoveryCompleted' = TRUE
    /\ view' = SelectAccountMessage(MapSimpleAccount(p.all), TRUE)
    /\ posted' = <<SelectAccountMessage(MapSimpleAccount(p.all), TRUE)>>
    /\ discoveries' = Ended(p)
    /\ UNCHANGED <<raw, methodParams, input, pc, accounts, selectedAccount, txComposer,
                   uiPromise, uiResponse, feeList, tx, signedtx, outcome,
                   minFeeCalls, signTxCalls, sendCalls, disposeCalls>>

\* onError leaving the wait of the method as it is
onErrorSwallowed(p) ==
    /\ BagIn(p, discoveries)
    /\ posted' = <<>>
    /\ discoveries' = Ended(p)
    /\ UNCHANGED <<raw, methodParams, input, pc, accounts, discoveryCompleted, selectedAccount, txComposer,
                   uiPromise, uiResponse, view, feeList, tx, signedtx, outcome,
                   minFeeCalls, signTxCalls, sendCalls, disposeCalls>>

\* onError(error): callbacks.getUiPromise().reject(error)
onError(p) ==
    /\ BagIn(p, discoveries)
    /\ uiPromise' = IF uiPromise.state = "pending"
                    THEN Rejected(Error("Discovery failed")) ELSE uiPromise
    /\ posted' = <<>>
    /\ discoveries' = Ended(p)
    /\ UNCHANGED <<raw, methodParams, input, pc, accounts, discoveryCompleted, selectedAccount, txComposer,
                   uiResponse, view, feeList, tx, signedtx, outcome,
                   minFeeCalls, signTxCalls, sendCalls, disposeCalls>>

----------------------------------------------------------------------------
(* The method, from one await to the next (lines 153-331) *)

\* the promise returned by method is rejected: nothing after the throw runs
Throw(error) ==
    /\ outcome' = [status |-> "rejected", value |-> error]
    /\ pc' = "done"

\* restoreDiscovery without the test of discoveryCompleted: the discovery always starts again
restoreDiscoveryAlways ==
    /\ discoveries' = discover(accounts)
    /\ posted' = IF input.total = 0
                 THEN <<SetOperation("Payment request", Number(0))>> ELSE <<>>
    /\ UNCHANGED <<discoveryCompleted, view>>

\* restoreDiscovery (lines 154-172)
restoreDiscovery ==
    LET label == IF input.total = 0
                 THEN <<SetOperation("Payment request", Number(0))>> ELSE <<>>
    IN IF discoveryCompleted
       THEN \* onComplete(accounts)
            /\ discoveryCompleted' = TRUE
            /\ view' = SelectAccountMessage(MapSimpleAccount(accounts), TRUE)
            /\ posted' = Append(label, SelectAccountMessage(MapSimpleAccount(accounts), TRUE))
            /\ discoveries' = discoveries
       ELSE /\ discoveries' = discover(accounts)
            /\ posted' = label
            /\ UNCHANGED <<discoveryCompleted, view>>

\* the filter of line 260 letting every event through
IsWorkflowEventAny(event) == TRUE

\* the filter of composingCycle (line 260): the events it goes on with
IsWorkflowEvent(event) == event \in {"RECEIVE_ACCOUNT", "RECEIVE_FEE", "CHANGE_ACCOUNT"}

\* composingCycle, line 256: the popup answers the wait with this response
Responded(response) ==
    /\ pc = "await_ui"
    /\ uiPromise.state = "pending"
    /\ uiResponse' = [event |-> response.event]

\* composingCycle, lines 260-262: another event is passed over and the wait starts again
IgnoreUiResponse(response) ==
    /\ Responded(response)
    /\ ~IsWorkflowEvent(response.event)
    /\ posted' = <<>>
    /\ UNCHANGED <<raw, methodParams, input, pc, accounts, discoveryCompleted, selectedAccount, txComposer,
                   uiPromise, discoveries, view, feeList, tx, signedtx, outcome,
                   minFeeCalls, signTxCalls, sendCalls, disposeCalls>>

\* ReceiveAccount without the call of stopDiscovering
ReceiveAccountNoStop(response) ==
    /\ Responded(response)
    /\ IsWorkflowEvent(response.event)
    /\ response.event = "RECEIVE_ACCOUNT"
    /\ selectedAccount' = At(accounts, parseInt(response.data.value))
    /\ txComposer' = [defined |-> TRUE, account |-> selectedAccount', composed |-> <<>>]
    /\ minFeeCalls' = 0
    /\ pc' = "composing"
    /\ posted' = <<>>
    /\ UNCHANGED <<raw, methodParams, input, accounts, discoveryCompleted, uiPromise, discoveries, view,
                   feeList, tx, signedtx, outcome, signTxCalls, sendCalls, disposeCalls>>

\* composingCycle, lines 266-270, and onAccountSelection up to its first await (188-203)
ReceiveAccount(response) ==
    /\ Responded(response)
    /\ IsWorkflowEvent(response.event)
    /\ response.event = "RECEIVE_ACCOUNT"
    /\ discoveries' = stopDiscovering
    /\ selectedAccount' = At(accounts, parseInt(response.data.value))
    /\ txComposer' = [defined |-> TRUE, account |-> selectedAccount', composed |-> <<>>]
    /\ minFeeCalls' = 0
    /\ pc' = "composing"
    /\ posted' = <<>>
    /\ UNCHANGED <<raw, methodParams, input, accounts, discoveryCompleted, uiPromise, view, feeList, tx,
                   signedtx, outcome, signTxCalls, sendCalls, disposeCalls>>

\* the loop of lines 207-215 left at the first final result
RECURSIVE ForEachTxBreak(_, _, _)
ForEachTxBreak(txs, i, valid) ==
    IF i > Len(txs) THEN [valid |-> valid, thrown |-> FALSE]
    ELSE IF txs[i].type = "final" THEN [valid |-> TRUE, thrown |-> FALSE]
    ELSE IF txs[i].type = "error" /\ txs[i].error = "TWO-SEND-MAX"
         THEN [valid |-> valid, thrown |-> TRUE]
    ELSE ForEachTxBreak(txs, i + 1, valid)

\* txs.forEach (lines 206-215): [valid, thrown] after the results from index i on
RECURSIVE ForEachTx(_, _, _)
ForEachTx(txs, i, valid) ==
    IF i > Len(txs) THEN [valid |-> valid, thrown |-> FALSE]
    ELSE IF txs[i].type = "final" THEN ForEachTx(txs, i + 1, TRUE)
    ELSE IF txs[i].type = "error" /\ txs[i].error = "TWO-SEND-MAX"
         THEN [valid |-> valid, thrown |-> TRUE]
    ELSE ForEachTx(txs, i + 1, valid)

\* the check of lines 206-215 never finding a final result
CheckTxsNeverValid(txs) == [valid |-> FALSE, thrown |-> ForEachTx(txs, 1, FALSE).thrown]

CheckTxs(txs) == ForEachTx(txs, 1, FALSE)

\* lines 231-246: the label and the fee view, from the composed transactions
FeeList(txs) == [index \in 1..Len(FeeLevels) |-> simpleTxResult(FeeLevels[index], txs[index])]

TotalSpent(t) == IF t.type = "final" THEN Number(t.totalSpent) ELSE NaN

ShowFeeSelection(txs) ==
    /\ posted' = (IF input.total = 0
                  THEN <<SetOperation("Send", TotalSpent(txs[Len(txs)]))>> ELSE <<>>)
                 \o <<[type |-> "SELECT_FEE", list |-> FeeList(txs)]>>
    /\ view' = [type |-> "SELECT_FEE", list |-> FeeList(txs)]
    /\ feeList' = FeeList(txs)
    /\ pc' = "await_ui"

\* showInsufficientFundsView up to its await (lines 175-178)
showInsufficientFundsView ==
    /\ posted' = <<[type |-> "INSUFFICIENT_FUNDS"]>>
    /\ view' = [type |-> "INSUFFICIENT_FUNDS"]
    /\ pc' = "grace"

\* txComposer.composeAllLevels() answering these results: the composer keeps them as
\* its composed array and answers that array, not a copy of it. TransactionComposer is
\* not in the source modelled here; the results of a selection are one array, which the
\* retry at the minimum fee overwrites in place (spec, sections 3 and 9)
composeAllLevels(composer, results) == [composer EXCEPT !.composed = results]

\* onAccountSelection after composeAllLevels, without the retry at the minimum fee
ComposeAllLevelsNoRetry(results) ==
    /\ pc = "composing"
    /\ LET composer == composeAllLevels(txComposer, results)
           txs == composer.composed
           checked == CheckTxs(txs)
       IN /\ txComposer' = composer
          /\ IF checked.thrown
             THEN /\ Throw(Error("Double send max!"))
                  /\ UNCHANGED <<view, feeList>>
                  /\ posted' = <<>>
             ELSE IF checked.valid
             THEN /\ ShowFeeSelection(txs)
                  /\ UNCHANGED outcome
             ELSE /\ showInsufficientFundsView
                  /\ UNCHANGED <<outcome, feeList>>
    /\ UNCHANGED <<raw, methodParams, input, accounts, discoveryCompleted, selectedAccount,
                   uiPromise, uiResponse, discoveries, tx, signedtx,
                   minFeeCalls, signTxCalls, sendCalls, disposeCalls>>

\* onAccountSelection from the answers of txComposer.init() and composeAllLevels() to its
\* next await or its end (lines 203-247). txs is txComposer.composed: the label and the
\* fee view (lines 232, 241) read what the retry wrote (line 221)
ComposeAllLevels(results) ==
    /\ pc = "composing"
    /\ LET composer == composeAllLevels(txComposer, results)
           txs == composer.composed
           checked == CheckTxs(txs)
       IN IF checked.thrown
          THEN /\ Throw(Error("Double send max!"))
               /\ txComposer' = composer
               /\ UNCHANGED <<minFeeCalls, view, feeList>>
               /\ posted' = <<>>
          ELSE IF checked.valid
          THEN /\ txComposer' = composer
               /\ ShowFeeSelection(txs)
               /\ UNCHANGED <<minFeeCalls, outcome>>
          ELSE \E t \in ComposeResults(MinFee) :
               /\ minFeeCalls' = minFeeCalls + 1
               /\ UNCHANGED outcome
               /\ IF t.type = "final"
                  THEN /\ txComposer' = [composer EXCEPT !.composed = SetLast(txs, t)]
                       /\ ShowFeeSelection(SetLast(txs, t))
                  ELSE /\ txComposer' = composer
                       /\ showInsufficientFundsView
                       /\ UNCHANGED feeList
    /\ UNCHANGED <<raw, methodParams, input, accounts, discoveryCompleted, selectedAccount, uiPromise, uiResponse,
                   discoveries, tx, signedtx, signTxCalls, sendCalls, disposeCalls>>

\* showInsufficientFundsView after resolveAfter(2000) (lines 178-180)
GraceElapsed ==
    /\ pc = "grace"
    /\ restoreDiscovery
    /\ pc' = "await_ui"
    /\ UNCHANGED <<raw, methodParams, input, accounts, selectedAccount, txComposer, uiPromise, uiResponse, feeList,
                   tx, signedtx, outcome, minFeeCalls, signTxCalls, sendCalls, disposeCalls>>

\* composingCycle, lines 273-277
ChangeAccount(response) ==
    /\ Responded(response)
    /\ IsWorkflowEvent(response.event)
    /\ response.event # "RECEIVE_ACCOUNT"
    /\ response.event = "CHANGE_ACCOUNT"
    /\ ~discoveryCompleted => BagCardinality(discoveries) < MaxProducers
    /\ restoreDiscovery
    /\ UNCHANGED <<raw, methodParams, input, pc, accounts, selectedAccount, txComposer, uiPromise, feeList,
                   tx, signedtx, outcome, minFeeCalls, signTxCalls, sendCalls, disposeCalls>>

\* composingCycle, lines 260-278: the event is neither of the two handled before
ReceivedFee(response) ==
    /\ Responded(response)
    /\ IsWorkflowEvent(response.event)
    /\ response.event # "RECEIVE_ACCOUNT"
    /\ response.event # "CHANGE_ACCOUNT"

\* ReceiveCustomFee passing over a custom fee received before any account was selected
ReceiveCustomFeeUnchecked(response) ==
    /\ ReceivedFee(response)
    /\ response.data.type = "custom"
    /\ IF ~txComposer.defined
       THEN /\ posted' = <<>>
            /\ UNCHANGED <<txComposer, view, feeList>>
       ELSE \E t \in ComposeResults(parseInt(response.data.value).n) :
                LET simple == simpleTxResult(FeeLevels[Len(FeeLevels)], t)
                IN /\ txComposer' = [txComposer EXCEPT
                                        !.composed = SetLast(txComposer.composed, t)]
                   /\ posted' = <<[type |-> "UPDATE_CUSTOM_FEE", level |-> simple]>>
                   /\ feeList' = SetLast(feeList, simple)
                   /\ UNCHANGED view
    /\ UNCHANGED <<raw, methodParams, input, pc, outcome, accounts, discoveryCompleted,
                   selectedAccount, uiPromise, discoveries, tx, signedtx, minFeeCalls,
                   signTxCalls, sendCalls, disposeCalls>>

\* composingCycle, lines 278-290
ReceiveCustomFee(response) ==
    /\ ReceivedFee(response)
    /\ response.data.type = "custom"
    /\ IF ~txComposer.defined
       THEN /\ Throw(Error("TransactionComposer not initialized."))
            /\ posted' = <<>>
            /\ UNCHANGED <<txComposer, view, feeList>>
       ELSE /\ \E t \in ComposeResults(parseInt(response.data.value).n) :
                LET simple == simpleTxResult(FeeLevels[Len(FeeLevels)], t)
                IN /\ txComposer' = [txComposer EXCEPT
                                        !.composed = SetLast(txComposer.composed, t)]
                   /\ posted' = <<[type |-> "UPDATE_CUSTOM_FEE", level |-> simple]>>
                   /\ feeList' = SetLast(feeList, simple)
            /\ UNCHANGED <<pc, outcome, view>>
    /\ UNCHANGED <<raw, methodParams, input, accounts, discoveryCompleted, selectedAccount, uiPromise,
                   discoveries, tx, signedtx, minFeeCalls, signTxCalls, sendCalls,
                   disposeCalls>>

\* ReceiveFee returning the first composed transaction whatever the index received
ReceiveFeeFirst(response) ==
    /\ ReceivedFee(response)
    /\ response.data.type # "custom"
    /\ response.data.type = "fee"
    /\ IF ~txComposer.defined
       THEN /\ Throw(Error("TransactionComposer not initialized."))
            /\ UNCHANGED tx
       ELSE /\ tx' = At(txComposer.composed, Number(0))
            /\ pc' = "cycle_done"
            /\ UNCHANGED outcome
    /\ posted' = <<>>
    /\ UNCHANGED <<raw, methodParams, input, accounts, discoveryCompleted, selectedAccount, txComposer,
                   uiPromise, discoveries, view, feeList, signedtx,
                   minFeeCalls, signTxCalls, sendCalls, disposeCalls>>

\* composingCycle, lines 291-300: the loop ends with the transaction chosen
ReceiveFee(response) ==
    /\ ReceivedFee(response)
    /\ response.data.type # "custom"
    /\ response.data.type = "fee"
    /\ IF ~txComposer.defined
       THEN /\ Throw(Error("TransactionComposer not initialized."))
            /\ UNCHANGED tx
       ELSE /\ tx' = At(txComposer.composed, parseInt(response.data.value))
            /\ pc' = "cycle_done"
            /\ UNCHANGED outcome
    /\ posted' = <<>>
    /\ UNCHANGED <<raw, methodParams, input, accounts, discoveryCompleted, selectedAccount, txComposer,
                   uiPromise, discoveries, view, feeList, signedtx,
                   minFeeCalls, signTxCalls, sendCalls, disposeCalls>>

\* composingCycle, line 301: a fee answer of another type falls through, undefined returned
ReceiveOtherFee(response) ==
    /\ ReceivedFee(response)
    /\ response.data.type # "custom"
    /\ response.data.type # "fee"
    /\ tx' = Undefined
    /\ pc' = "cycle_done"
    /\ posted' = <<>>
    /\ UNCHANGED <<raw, methodParams, input, accounts, discoveryCompleted, selectedAccount, txComposer,
                   uiPromise, discoveries, view, feeList, signedtx, outcome,
                   minFeeCalls, signTxCalls, sendCalls, disposeCalls>>

\* composingCycle (lines 254-301): one answer of the popup, handled
composingCycle(response) ==
    \/ IgnoreUiResponse(response)
    \/ ReceiveAccount(response)
    \/ ChangeAccount(response)
    \/ ReceiveCustomFee(response)
    \/ ReceiveFee(response)
    \/ ReceiveOtherFee(response)

\* composingCycle, line 256: the wait was rejected (onError of the discovery)
UiRejected ==
    /\ pc = "await_ui"
    /\ uiPromise.state = "rejected"
    /\ Throw(uiPromise.error)
    /\ posted' = <<>>
    /\ UNCHANGED <<raw, methodParams, input, accounts, discoveryCompleted, selectedAccount, txComposer,
                   uiPromise, uiResponse, discoveries, view, feeList, tx, signedtx,
                   minFeeCalls, signTxCalls, sendCalls, disposeCalls>>

\* lines 306-309: the referenced transactions are fetched and signTx is called
GetReferencedTx ==
    /\ pc = "cycle_done"
    /\ IF txComposer.defined /\ tx.type # "final"
       THEN \* tx.transaction.inputs of a result that has no transaction
            /\ Throw(TypeError)
            /\ UNCHANGED signTxCalls
       ELSE /\ signTxCalls' = signTxCalls + 1
            /\ pc' = "signing"
            /\ UNCHANGED outcome
    /\ posted' = <<>>
    /\ UNCHANGED <<raw, methodParams, input, accounts, discoveryCompleted, selectedAccount, txComposer,
                   uiPromise, uiResponse, discoveries, view, feeList, tx, signedtx,
                   minFeeCalls, sendCalls, disposeCalls>>

\* the answer of the device: signedtx.message.serialized of this transaction
Serialized(t) == [serialized_tx |-> [signed |-> t]]

\* lines 325-330
DisposeAndReturn(txId, serialized) ==
    /\ disposeCalls' = disposeCalls + 1
    /\ outcome' = [status |-> "resolved", value |-> Spread([txid |-> txId], serialized)]
    /\ pc' = "done"

\* SignTx broadcasting whatever input.pushTransaction is
SignTxAlwaysPush(signed) ==
    /\ pc = "signing"
    /\ IF ~signed
       THEN /\ Throw(Error("Device call failed"))
            /\ UNCHANGED <<signedtx, sendCalls, disposeCalls>>
       ELSE /\ signedtx' = [message |-> [serialized |-> Serialized(tx)]]
            /\ sendCalls' = sendCalls + 1
            /\ pc' = "broadcasting"
            /\ UNCHANGED <<outcome, disposeCalls>>
    /\ posted' = <<>>
    /\ UNCHANGED <<raw, methodParams, input, accounts, discoveryCompleted, selectedAccount, txComposer,
                   uiPromise, uiResponse, discoveries, view, feeList, tx, minFeeCalls,
                   signTxCalls>>

\* signTx answers (lines 309-314): signed, or the device failed
SignTx(signed) ==
    /\ pc = "signing"
    /\ IF ~signed
       THEN /\ Throw(Error("Device call failed"))
            /\ UNCHANGED <<signedtx, sendCalls, disposeCalls>>
       ELSE /\ signedtx' = [message |-> [serialized |-> Serialized(tx)]]
            /\ IF input.pushTransaction
               THEN /\ sendCalls' = sendCalls + 1
                    /\ pc' = "broadcasting"
                    /\ UNCHANGED <<outcome, disposeCalls>>
               ELSE /\ DisposeAndReturn(Undefined, Serialized(tx))
                    /\ UNCHANGED sendCalls
    /\ posted' = <<>>
    /\ UNCHANGED <<raw, methodParams, input, accounts, discoveryCompleted, selectedAccount, txComposer,
                   uiPromise, uiResponse, discoveries, view, feeList, tx, minFeeCalls,
                   signTxCalls>>

\* the object thrown when the broadcast fails, without the spread of the signed transaction
BroadcastFailureMessageOnly(error, serialized) == [custom |-> TRUE, error |-> error.message]

\* the object thrown when the broadcast fails (lines 316-321)
BroadcastFailure(error, serialized) ==
    Spread([custom |-> TRUE, error |-> error.message], serialized)

\* backend.sendTransactionHex answers (lines 314-330)
SendTransactionHex(sent) ==
    /\ pc = "broadcasting"
    /\ IF sent
       THEN DisposeAndReturn([type |-> "txid", of |-> signedtx.message.serialized.serialized_tx],
                             signedtx.message.serialized)
       ELSE /\ Throw(BroadcastFailure(Error("Broadcast failed"), signedtx.message.serialized))
            /\ UNCHANGED disposeCalls
    /\ posted' = <<>>
    /\ UNCHANGED <<raw, methodParams, input, accounts, discoveryCompleted, selectedAccount, txComposer,
                   uiPromise, uiResponse, discoveries, view, feeList, tx, signedtx,
                   minFeeCalls, signTxCalls, sendCalls>>

----------------------------------------------------------------------------

Next ==
    \/ \E p \in BagToSet(discoveries) : onStart(p)
    \/ \E p \in BagToSet(discoveries) : onUpdate(p)
    \/ \E p \in BagToSet(discoveries) : onComplete(p)
    \/ \E p \in BagToSet(discoveries) : onError(p)
    \/ \E response \in UiResponses : IgnoreUiResponse(response)
    \/ \E response \in UiResponses : ReceiveAccount(response)
    \/ \E response \in UiResponses : ChangeAccount(response)
    \/ \E response \in UiResponses : ReceiveCustomFee(response)
    \/ \E response \in UiResponses : ReceiveFee(response)
    \/ \E response \in UiResponses : ReceiveOtherFee(response)
    \/ UiRejected
    \/ \E results \in AllLevelsResults : ComposeAllLevels(results)
    \/ GraceElapsed
    \/ GetReferencedTx
    \/ \E signed \in BOOLEAN : SignTx(signed)
    \/ \E sent \in BOOLEAN : SendTransactionHex(sent)

Spec == Init /\ [][Next]_vars

\* resolveAfter(2000) resolves: the grace delay always ends
FairSpec == Spec /\ WF_vars(GraceElapsed)

----------------------------------------------------------------------------
(* Notions the properties share *)

composed == txComposer.composed
HasFinal(txs) == \E i \in 1..Len(txs) : txs[i].type = "final"
HasDoubleSendMax(txs) ==
    \E i \in 1..Len(txs) : txs[i] = ComposeError("TWO-SEND-MAX")
Running == outcome.status = "pending"
Waiting == pc = "await_ui" /\ uiPromise.state = "pending" /\ Running
\* the popup shows the fee view and the method waits for its answer
AwaitingFee == Waiting /\ view.type = "SELECT_FEE"
\* the latest step posted an update of the custom fee, and nothing else
CustomFeePosted == Len(posted) = 1 /\ posted[1].type = "UPDATE_CUSTOM_FEE"
\* the steps that start the discovery again: restoreDiscovery is called
Resumes == pc = "grace" \/ \E response \in UiResponses : ChangeAccount(response)

----------------------------------------------------------------------------
(* C1: on every terminal path of a session (success, broadcast failure,     *)
(* signing failure, double send-max, discovery error) the backend is        *)
(* disposed exactly once. The method disposes it on the success path only.  *)
C1_BackendReleasedExactlyOnce ==
    /\ disposeCalls <= 1
    /\ pc = "done" => disposeCalls = 1

(* C2: an account selection stops the discovery before the composition is   *)
(* called, and from then until the discovery is started again (the grace    *)
(* delay elapsing, or a change of account) no producer runs and no callback *)
(* changes accounts or discoveryCompleted.                                   *)
C2_SelectionStopsDiscovery ==
    [][ /\ pc' = "composing" => discoveries' = EmptyBag
        /\ (discoveries = EmptyBag /\ ~Resumes)
              => /\ discoveries' = EmptyBag
                 /\ accounts' = accounts
                 /\ discoveryCompleted' = discoveryCompleted ]_vars

\* an account was selected while the discovery was running, and is being composed for
C2_Witness ==
    /\ pc = "composing"
    /\ selectedAccount # Undefined
    /\ ~discoveryCompleted
    /\ uiPromise.state = "pending"
    /\ discoveries = EmptyBag

(* C3: an answer of the popup whose event is none of RECEIVE_ACCOUNT,       *)
(* CHANGE_ACCOUNT and RECEIVE_FEE is dropped: the session is left as it     *)
(* was, nothing is posted, nothing is thrown and the method waits again.    *)
C3_StrayEventsDropped ==
    [][ \A response \in UiResponses :
          ( /\ response.event \notin {"RECEIVE_ACCOUNT", "CHANGE_ACCOUNT", "RECEIVE_FEE"}
            /\ composingCycle(response) )
          => /\ UNCHANGED <<accounts, discoveryCompleted, selectedAccount, txComposer,
                            discoveries, view, feeList, tx, signedtx, outcome,
                            minFeeCalls, signTxCalls, sendCalls, disposeCalls>>
             /\ posted' = <<>>
             /\ pc' = "await_ui"
             /\ uiPromise'.state = "pending"
             /\ outcome'.status = "pending" ]_vars

\* a stray event was dropped while the fee view was shown
C3_Witness ==
    /\ AwaitingFee
    /\ selectedAccount # Undefined
    /\ HasFinal(composed)
    /\ uiResponse = [event |-> "RECEIVE_PIN"]
    /\ posted = <<>>

\* the step onAccountSelection takes when composeAllLevels answers these results
Answered(results) == ComposeAllLevels(results)

\* the step shows the fee view of these results at once
FeeViewAtOnce(results) ==
    /\ pc' = "await_ui"
    /\ outcome'.status = "pending"
    /\ view'.type = "SELECT_FEE"
    /\ \E i \in 1..Len(posted') : posted'[i] = [type |-> "SELECT_FEE", list |-> FeeList(results)]
    /\ \A i \in 1..Len(posted') : posted'[i].type # "INSUFFICIENT_FUNDS"
    /\ minFeeCalls' = 0
    /\ composed' = results

(* C4 as claimed: whenever composing all fee levels gives at least one      *)
(* final result, the fee view is shown and the method waits for the fee,    *)
(* with no insufficient-funds view and no retry at the minimum fee.         *)
C4_FinalReachesFeeView_Claimed ==
    [][ pc = "composing" => \A results \in AllLevelsResults :
          (HasFinal(results) /\ Answered(results)) => FeeViewAtOnce(results) ]_vars

(* C4, amended: whenever composing all fee levels gives at least one final  *)
(* result and no TWO-SEND-MAX error, the fee view is shown and the method   *)
(* waits for the fee, with no insufficient-funds view and no retry.         *)
C4_FinalReachesFeeView ==
    [][ pc = "composing" => \A results \in AllLevelsResults :
          (HasFinal(results) /\ ~HasDoubleSendMax(results) /\ Answered(results))
             => FeeViewAtOnce(results) ]_vars

\* the fee view is shown for a selection whose only final result is not the first
C4_Witness ==
    /\ AwaitingFee
    /\ selectedAccount # Undefined
    /\ uiResponse = [event |-> "RECEIVE_ACCOUNT"]
    /\ minFeeCalls = 0
    /\ composed[1].type = "error"
    /\ HasFinal(composed)

\* the retry at the minimum fee: called once, its final result kept in the last slot
\* and the fee view shown, or else the insufficient-funds view and the grace delay
RetriedOnce(results) ==
    /\ minFeeCalls' = 1
    /\ outcome'.status = "pending"
    /\ \/ /\ pc' = "await_ui"
          /\ Len(composed') = Len(results)
          /\ composed'[Len(results)] = Final(MinFee)
          /\ \A i \in 1..(Len(results) - 1) : composed'[i] = results[i]
          /\ view' = [type |-> "SELECT_FEE", list |-> FeeList(composed')]
          /\ posted'[Len(posted')] = view'
       \/ /\ pc' = "grace"
          /\ composed' = results
          /\ view' = [type |-> "INSUFFICIENT_FUNDS"]

(* C5 as claimed: whenever no fee level gives a final result, exactly one   *)
(* more composition is called, at the minimum fee; a final result of it is  *)
(* kept in the last slot and the fee view is shown; never a second retry.   *)
C5_OneMinFeeRetry_Claimed ==
    [][ /\ minFeeCalls' <= 1
        /\ pc = "composing" => \A results \in AllLevelsResults :
              (~HasFinal(results) /\ Answered(results)) => RetriedOnce(results) ]_vars

(* C5, amended: whenever no fee level gives a final result and none gives a *)
(* TWO-SEND-MAX error, exactly one more composition is called, at the       *)
(* minimum fee; a final result of it is kept in the last slot and the fee   *)
(* view is shown; never a second retry for the same selection.              *)
C5_OneMinFeeRetry ==
    [][ /\ minFeeCalls' <= 1
        /\ pc = "composing" => \A results \in AllLevelsResults :
              (~HasFinal(results) /\ ~HasDoubleSendMax(results) /\ Answered(results))
                 => RetriedOnce(results) ]_vars

\* only the retry at the minimum fee gave a final result, and the fee view is shown
C5_Witness ==
    /\ AwaitingFee
    /\ selectedAccount # Undefined
    /\ uiResponse = [event |-> "RECEIVE_ACCOUNT"]
    /\ minFeeCalls = 1
    /\ composed[Len(composed)] = Final(MinFee)
    /\ \A i \in 1..(Len(composed) - 1) : composed[i].type = "error"

\* after the grace delay: the method waits again, discoveryCompleted as it was. When the
\* discovery was over the completed list is the view again, posted with complete = true;
\* when it was not, the discovery goes on from the known accounts and nothing but the
\* label is posted: the insufficient-funds view stays
Recovered(done) ==
    /\ Waiting
    /\ discoveryCompleted = done
    /\ IF done
       THEN /\ view = SelectAccountMessage(MapSimpleAccount(accounts), TRUE)
            /\ posted # <<>> /\ posted[Len(posted)] = view
       ELSE /\ discoveries = SetToBag({Producer(accounts)})
            /\ view = [type |-> "INSUFFICIENT_FUNDS"]
            /\ \A i \in 1..Len(posted) : posted[i].type = "SET_OPERATION"

\* no fee level and no retry gave a final result: the insufficient-funds view is posted
\* and the session goes on to the grace delay
InsufficientFundsShown ==
    pc = "composing" => \A results \in AllLevelsResults :
        ( /\ ~HasFinal(results) /\ ~HasDoubleSendMax(results)
          /\ Answered(results)
          /\ composed' = results )
        => /\ pc' = "grace"
           /\ posted' = <<[type |-> "INSUFFICIENT_FUNDS"]>>
           /\ outcome'.status = "pending"
           /\ UNCHANGED <<discoveryCompleted, accounts>>

(* C6 as claimed: when no fee level gives a final result and the retry at   *)
(* the minimum fee gives none either, the session goes on: the              *)
(* insufficient-funds view is posted and, the grace delay over, the method  *)
(* waits for an account again and an account list is posted again whose     *)
(* complete flag is the value discoveryCompleted had before the selection.  *)
C6_InsufficientFundsRecovers_Claimed ==
    /\ [][InsufficientFundsShown]_vars
    /\ [][ (view.type = "INSUFFICIENT_FUNDS" /\ view'.type = "SELECT_ACCOUNT")
              => view'.complete = discoveryCompleted ]_vars
    /\ \A done \in BOOLEAN :
          (pc = "grace" /\ discoveryCompleted = done)
             ~> (Waiting /\ view.type = "SELECT_ACCOUNT" /\ view.complete = done)

(* C6, amended: when no fee level gives a final result and the retry at the *)
(* minimum fee gives none either, the session goes on: the                  *)
(* insufficient-funds view is posted and, the grace delay over, the method  *)
(* waits for an account again, discoveryCompleted as it was before the      *)
(* selection. When the discovery was over, the completed list is posted     *)
(* again at once with complete = true. When it was not, the discovery is    *)
(* started from the known accounts and the method posts no account list:    *)
(* the insufficient-funds view stays until a callback of that discovery     *)
(* posts the list, with the flag of that callback (true from onComplete).   *)
C6_InsufficientFundsRecovers ==
    /\ [][InsufficientFundsShown]_vars
    /\ [][ \A done \in BOOLEAN :
             (pc = "grace" /\ discoveryCompleted = done /\ pc' # "grace")
                => Recovered(done)' ]_vars
    /\ [][ (view.type = "INSUFFICIENT_FUNDS" /\ view'.type = "SELECT_ACCOUNT")
              => /\ view'.complete = discoveryCompleted'
                 /\ \/ pc = "grace" /\ discoveryCompleted
                    \/ \E p \in BagToSet(discoveries) :
                          onStart(p) \/ onUpdate(p) \/ onComplete(p) ]_vars
    /\ \A done \in BOOLEAN :
          (pc = "grace" /\ discoveryCompleted = done) ~> Recovered(done)

\* the insufficient-funds view was shown after the retry for an account selected while
\* the discovery ran; the grace delay is over and the discovery goes on, no list posted
C6_Witness ==
    /\ Recovered(FALSE)
    /\ selectedAccount # Undefined
    /\ uiResponse = [event |-> "RECEIVE_ACCOUNT"]
    /\ minFeeCalls = 1
    /\ ~HasFinal(composed)

DoubleSendMaxError == [status |-> "rejected", value |-> Error("Double send max!")]

(* C7: when any result of composing all fee levels is a TWO-SEND-MAX error, *)
(* the session ends at once, rejected with an error, whatever the other     *)
(* results are: no retry at the minimum fee, nothing posted, no further     *)
(* wait, and signTx never called.                                           *)
C7_DoubleSendMaxAborts ==
    [][ /\ pc = "composing" => \A results \in AllLevelsResults :
              (HasDoubleSendMax(results) /\ Answered(results))
                 => /\ outcome' = DoubleSendMaxError
                    /\ pc' = "done"
                    /\ posted' = <<>>
                    /\ composed' = results
                    /\ UNCHANGED <<minFeeCalls, view, feeList, signTxCalls>>
        /\ outcome' = DoubleSendMaxError
            => /\ pc' = "done"
               /\ signTxCalls' = 0
               /\ minFeeCalls' = 0 ]_vars

\* the session was aborted although a fee level before the error gave a final result
C7_Witness ==
    /\ outcome = DoubleSendMaxError
    /\ selectedAccount # Undefined
    /\ composed[1].type = "final"
    /\ HasDoubleSendMax(composed)

(* C8: however many custom fees were received, the composed results are as  *)
(* many as the fee levels, and the rows of the fee view are as many, with   *)
(* exactly one custom row, the last.                                        *)
C8_OneCustomSlotLast ==
    /\ composed # <<>> => Len(composed) = Len(FeeLevels)
    /\ feeList # <<>> =>
          /\ Len(feeList) = Len(FeeLevels)
          /\ {i \in 1..Len(feeList) : feeList[i].name = "custom"} = {Len(feeList)}

\* a custom fee was received in the fee view and composed to a final result
C8_Witness ==
    /\ AwaitingFee
    /\ selectedAccount # Undefined
    /\ CustomFeePosted
    /\ composed[Len(composed)] = Final(10)
    /\ feeList[Len(feeList)].name = "custom"

(* C9: a custom fee v received in the fee view composes the last slot alone *)
(* at the rate v: the other results, the selected account, accounts and     *)
(* discoveryCompleted are as before, exactly one UPDATE_CUSTOM_FEE is       *)
(* posted, and the method waits for the fee again.                          *)
C9_CustomFeeTouchesLastSlotOnly ==
    [][ \A response \in UiResponses :
          ( /\ AwaitingFee
            /\ response.event = "RECEIVE_FEE"
            /\ response.data.type = "custom"
            /\ composingCycle(response) )
          => LET last == Len(composed)
                 rate == parseInt(response.data.value).n
             IN /\ Len(composed') = last
                /\ \A i \in 1..(last - 1) : composed'[i] = composed[i]
                /\ composed'[last] \in ComposeResults(rate)
                /\ txComposer'.account = txComposer.account
                /\ UNCHANGED <<selectedAccount, accounts, discoveryCompleted, discoveries,
                               tx, outcome, minFeeCalls, signTxCalls>>
                /\ posted' = <<[type |-> "UPDATE_CUSTOM_FEE",
                                level |-> simpleTxResult(FeeLevels[Len(FeeLevels)],
                                                         composed'[last])]>>
                /\ Len(feeList') = Len(feeList)
                /\ \A i \in 1..(Len(feeList) - 1) : feeList'[i] = feeList[i]
                /\ view' = view
                /\ AwaitingFee' ]_vars

\* a custom fee was received after the retry at the minimum fee, the other slots errors
C9_Witness ==
    /\ AwaitingFee
    /\ selectedAccount # Undefined
    /\ CustomFeePosted
    /\ uiResponse = [event |-> "RECEIVE_FEE"]
    /\ minFeeCalls = 1
    /\ composed[Len(composed)] = Final(10)

(* C10: with pushTransaction set, when the broadcast fails after the device *)
(* signed, the session ends rejected with an object that holds the error    *)
(* message and every field of the serialized signed transaction; signTx was *)
(* called once.                                                             *)
C10_BroadcastFailureKeepsSignedTx ==
    (pc = "done" /\ sendCalls = 1 /\ outcome.status # "resolved")
        => /\ input.pushTransaction
           /\ outcome.status = "rejected"
           /\ "error" \in DOMAIN outcome.value
           /\ outcome.value.error = "Broadcast failed"
           /\ \A f \in DOMAIN signedtx.message.serialized :
                 /\ f \in DOMAIN outcome.value
                 /\ outcome.value[f] = signedtx.message.serialized[f]
           /\ signedtx.message.serialized = Serialized(tx)
           /\ signTxCalls = 1

\* the broadcast of a signed transaction failed
C10_Witness ==
    /\ pc = "done"
    /\ sendCalls = 1
    /\ outcome.status = "rejected"
    /\ tx.type = "final"

DeviceError == [status |-> "rejected", value |-> Error("Device call failed")]

(* C11: sendTransactionHex is called at most once in a session, only with   *)
(* pushTransaction set and only after signTx answered with the signed       *)
(* transaction; without pushTransaction, or when signTx fails, it is never  *)
(* called, and a failure of signTx ends the session rejected with an error  *)
(* that holds no signed transaction.                                        *)
C11_BroadcastAtMostOnceAfterSigning ==
    /\ sendCalls <= 1
    /\ sendCalls = 1 => /\ input.pushTransaction
                        /\ signTxCalls = 1
                        /\ signedtx # Undefined
    /\ ~input.pushTransaction => sendCalls = 0
    /\ signedtx = Undefined => sendCalls = 0
    /\ (pc = "done" /\ signTxCalls = 1 /\ signedtx = Undefined)
          => /\ outcome = DeviceError
             /\ sendCalls = 0
             /\ "serialized_tx" \notin DOMAIN outcome.value

\* with pushTransaction set, signTx failed for a final transaction
C11_Witness ==
    /\ outcome = DeviceError
    /\ input.pushTransaction
    /\ signTxCalls = 1
    /\ tx.type = "final"

DiscoveryError == Error("Discovery failed")

(* C12: when the discovery calls onError while the method waits for an      *)
(* answer of the popup, the wait is rejected with that error; from then on  *)
(* no answer of the popup is handled, the only step of the method is the    *)
(* one that ends the session rejected with that error, which it can take,   *)
(* and signTx is never called.                                              *)
C12_DiscoveryErrorUnblocksWait ==
    [][ /\ \A p \in BagToSet(discoveries) :
              (Waiting /\ onError(p)) => uiPromise' = Rejected(DiscoveryError)
        /\ (pc = "await_ui" /\ uiPromise.state = "rejected")
              => /\ ENABLED UiRejected
                 /\ UNCHANGED <<uiPromise, uiResponse, selectedAccount, txComposer, tx,
                                signedtx, signTxCalls, sendCalls>>
                 /\ \/ pc' = "await_ui" /\ outcome' = outcome
                    \/ /\ pc' = "done"
                       /\ outcome' = [status |-> "rejected", value |-> uiPromise.error]
        /\ outcome'.status = "rejected" /\ outcome'.value = DiscoveryError
              => signTxCalls' = 0 ]_vars

\* the discovery failed while the fee view was shown, and the session ended with its error
C12_Witness ==
    /\ pc = "done"
    /\ outcome = [status |-> "rejected", value |-> DiscoveryError]
    /\ view.type = "SELECT_FEE"
    /\ uiResponse = [event |-> "CHANGE_ACCOUNT"]

\* the method has left the loop of composingCycle and has not ended
LoopLeft == pc \in {"cycle_done", "signing", "broadcasting"}

(* C13: a fee index i received in the fee view ends the loop with the       *)
(* current entry i of the results composed for the selected account, which  *)
(* is the entry the fee view shows in row i (the last SELECT_FEE list, its  *)
(* last row as the last UPDATE_CUSTOM_FEE left it, the slot written by the  *)
(* retry at the minimum fee included); that transaction is the one signTx   *)
(* is called with.                                                          *)
C13_ChosenEntryIsShownEntry ==
    [][ /\ \A response \in UiResponses :
              ( /\ AwaitingFee
                /\ response.event = "RECEIVE_FEE"
                /\ response.data.type = "fee"
                /\ composingCycle(response) )
              => LET index == parseInt(response.data.value)
                 IN /\ pc' = "cycle_done"
                    /\ tx' = At(composed, index)
                    /\ UNCHANGED <<txComposer, selectedAccount, feeList>>
                    /\ txComposer.account = selectedAccount
                    /\ Len(feeList) = Len(composed)
                    /\ (~index.nan /\ index.n < Len(composed))
                          => feeList[index.n + 1]
                                = simpleTxResult(FeeLevels[index.n + 1], tx')
        /\ LoopLeft => UNCHANGED <<tx, txComposer, selectedAccount, feeList>>
        /\ signTxCalls' # signTxCalls => (pc = "cycle_done" /\ tx' = tx) ]_vars

\* the slot written by the retry at the minimum fee was chosen, and signTx called with it
C13_Witness ==
    /\ pc = "signing"
    /\ view.type = "SELECT_FEE"
    /\ minFeeCalls = 1
    /\ tx = Final(MinFee)
    /\ tx = composed[Len(composed)]
    /\ feeList[Len(feeList)] = simpleTxResult(FeeLevels[Len(FeeLevels)], tx)

----------------------------------------------------------------------------
(* The values params reads in the request and computes (lines 338-452) *)

\* a string the code compares or hands on as a whole
Text(text) == [type |-> "string", text |-> text]
\* a string the code looks into, as its characters
Chars(chars) == [type |-> "string", chars |-> chars]
\* a number, from a result of parseInt or of an addition
JsNumber(number) == [type |-> "number", nan |-> number.nan, n |-> number.n]
Boolean(value) == [type |-> "boolean", value |-> value]
Array(items) == [type |-> "array", items |-> items]

typeof(value) == value.type

\* the decimal digits of a natural number
RECURSIVE NatToString(_)
NatToString(n) ==
    IF n < 10 THEN <<Digits[n + 1]>>
    ELSE NatToString(n \div 10) \o <<Digits[(n % 10) + 1]>>

\* String(value), of a number, undefined or a string of characters
ToJsString(value) ==
    IF value.type = "number"
    THEN IF value.nan THEN <<"N", "a", "N">>
         ELSE IF value.n < 0 THEN <<"-">> \o NatToString(0 - value.n)
         ELSE NatToString(value.n)
    ELSE IF value.type = "undefined"
    THEN <<"u", "n", "d", "e", "f", "i", "n", "e", "d">>
    ELSE value.chars

\* Number(value): of a string, its decimal integer when it is one, 0 when it is empty
ToNumber(value) ==
    IF value.type = "number" THEN [nan |-> value.nan, n |-> value.n]
    ELSE IF value.type = "undefined" THEN NaN
    ELSE LET s == value.chars
             signed == s # <<>> /\ Head(s) \in {"-", "+"}
             digits == IF signed THEN Tail(s) ELSE s
         IN IF s = <<>> THEN Number(0)
            ELSE IF digits = <<>> \/ \E i \in 1..Len(digits) : ~IsDigit(digits[i]) THEN NaN
            ELSE parseInt(s)

\* a + b of JavaScript: the strings joined when either is a string, the sum otherwise
Plus(a, b) ==
    IF a.type = "string" \/ b.type = "string" THEN Chars(ToJsString(a) \o ToJsString(b))
    ELSE LET x == ToNumber(a)
             y == ToNumber(b)
         IN IF x.nan \/ y.nan THEN JsNumber(NaN) ELSE JsNumber(Number(x.n + y.n))

\* value > 0 of JavaScript
GreaterThanZero(value) == ~ToNumber(value).nan /\ ToNumber(value).n > 0

\* the truth of a value in a condition
Truthy(value) ==
    IF value.type = "undefined" THEN FALSE
    ELSE IF value.type = "number" THEN ~value.nan /\ value.n # 0
    ELSE IF value.type = "string" THEN value # Chars(<<>>)
    ELSE IF value.type = "boolean" THEN value.value
    ELSE TRUE

----------------------------------------------------------------------------
(* What params calls *)

\* getCoinInfoByCurrency: the coin's parameters, undefined for a coin that is not known
getCoinInfoByCurrency(currency) ==
    IF currency = "Bitcoin"
    THEN [name |-> currency, network |-> [pubKeyHash |-> 0, scriptHash |-> 5]]
    ELSE Undefined

\* bitcoin.address.fromBase58Check: the version the address holds, or a throw
fromBase58Check(address) ==
    IF address = "1Payee" THEN [thrown |-> FALSE, version |-> 0]
    ELSE IF address = "3Script" THEN [thrown |-> FALSE, version |-> 5]
    ELSE IF address = "mTestnet" THEN [thrown |-> FALSE, version |-> 111]
    ELSE [thrown |-> TRUE]

\* stringToHex: two hexadecimal digits for each character
HexCode(c) == IF c = "h" THEN <<"6", "8">> ELSE <<"6", "9">>
RECURSIVE stringToHex(_)
stringToHex(chars) ==
    IF chars = <<>> THEN <<>> ELSE HexCode(Head(chars)) \o stringToHex(Tail(chars))

\* /^[0-9A-Fa-f]{6}$/.test(chars) (line 373)
IsHexDigit(c) ==
    IsDigit(c) \/ c \in {"a", "b", "c", "d", "e", "f", "A", "B", "C", "D", "E", "F"}
IsHexData(chars) == Len(chars) = 6 /\ \A i \in 1..Len(chars) : IsHexDigit(chars[i])

\* what a throw and a return of a function are
Thrown(error) == [thrown |-> TRUE, error |-> error]
Returned(value) == [thrown |-> FALSE, value |-> value]

\* new Error(text + value)
ErrorAbout(message, value) == [name |-> "Error", message |-> message, about |-> value]

----------------------------------------------------------------------------
(* params (lines 338-452) *)

\* the branch of an OP_RETURN output (lines 365-388); length is raw.outputs.length.
\* out: the output of the request as the branch leaves it (line 371 writes out.data)
ParseOpReturn(out, length) ==
    LET hasData == typeof(out.data) = "string" /\ Len(out.data.chars) > 0
        isText == typeof(out.dataFormat) = "string" /\ out.dataFormat = Text("text")
        data == IF hasData /\ isText THEN Chars(stringToHex(out.data.chars)) ELSE out.data
        written == [out EXCEPT !.data = data]
    IN IF length > 1
       THEN [thrown |-> TRUE, out |-> out,
             error |-> Error("Only one output allowed when sending OP_RETURN transaction")]
       ELSE IF hasData /\ ~isText /\ ~IsHexData(out.data.chars)
       THEN [thrown |-> TRUE, out |-> out,
             error |-> Error("OP_RETURN data is not valid hexadecimal")]
       ELSE IF hasData /\ Len(data.chars) > 80 * 2
       THEN [thrown |-> TRUE, out |-> written,
             error |-> Error("OP_RETURN data size is larger than 80 bytes")]
       ELSE [thrown |-> FALSE, out |-> written,
             value |-> [type |-> "opreturn", dataHex |-> data]]

\* the branch of an output with an address and an amount (lines 398-418)
ParseComplete(out, coinInfo) ==
    IF typeof(out.address) # "string" THEN Thrown(Error("Output without address"))
    ELSE LET decoded == fromBase58Check(out.address.text)
             amount == out.amount
         IN IF \/ decoded.thrown
               \/ /\ decoded.version # coinInfo.network.pubKeyHash
                  /\ decoded.version # coinInfo.network.scriptHash
            THEN Thrown(ErrorAbout("Invalid address ", out.address))
            ELSE IF /\ typeof(amount) = "string" /\ parseInt(amount.chars).nan
                    /\ typeof(amount) # "number"
            THEN Thrown(Error("Output without amount"))
            ELSE Returned([type |-> "complete", address |-> out.address,
                           amount |-> parseInt(ToJsString(amount))])

\* for (const out of raw.outputs) (lines 363-423), from the output i on.
\* items: the outputs of the request as the loop leaves them
RECURSIVE ParseOutputs(_, _, _, _, _, _)
ParseOutputs(items, i, coinInfo, total, hasSendMax, parsedOutputs) ==
    IF i > Len(items)
    THEN [thrown |-> FALSE, items |-> items,
          value |-> [total |-> total, hasSendMax |-> hasSendMax,
                     parsedOutputs |-> parsedOutputs]]
    ELSE LET out == items[i]
         IN IF out.type = Text("opreturn")
            THEN LET output == ParseOpReturn(out, Len(items))
                     written == [items EXCEPT ![i] = output.out]
                 IN IF output.thrown
                    THEN [thrown |-> TRUE, items |-> written, error |-> output.error]
                    ELSE ParseOutputs(written, i + 1, coinInfo, total, hasSendMax,
                                      Append(parsedOutputs, output.value))
            ELSE IF out.type = Text("send-max")
            THEN IF hasSendMax
                 THEN [thrown |-> TRUE, items |-> items,
                       error |-> Error("Only one send-max output allowed")]
                 ELSE ParseOutputs(items, i + 1, coinInfo, total, TRUE,
                                   Append(parsedOutputs,
                                          [type |-> "send-max", address |-> out.address]))
            ELSE LET output == ParseComplete(out, coinInfo)
                 IN IF output.thrown
                    THEN [thrown |-> TRUE, items |-> items, error |-> output.error]
                    ELSE ParseOutputs(items, i + 1, coinInfo, Plus(total, out.amount),
                                      hasSendMax, Append(parsedOutputs, output.value))

\* the coin of the request (line 344)
RequestCoinInfo(request) ==
    getCoinInfoByCurrency(IF typeof(request.coin) = "string"
                          THEN request.coin.text ELSE "Bitcoin")

\* the outputs of the request are read: neither the coin nor the locktime was refused
OutputsRead(request) ==
    /\ RequestCoinInfo(request) # Undefined
    /\ ~(Truthy(request.locktime) /\ parseInt(ToJsString(request.locktime)).nan)
    /\ request.outputs.type = "array"

\* params(raw): the MethodParams returned, or the error thrown
params(request) ==
    LET coinInfo == RequestCoinInfo(request)
        locktime == parseInt(ToJsString(request.locktime))
        parsed == ParseOutputs(request.outputs.items, 1, coinInfo,
                               JsNumber(Number(0)), FALSE, <<>>)
        total == IF GreaterThanZero(parsed.value.total) /\ parsed.value.hasSendMax
                 THEN JsNumber(Number(0)) ELSE parsed.value.total
        pushTransaction == IF typeof(request.push) = "boolean"
                           THEN request.push.value ELSE FALSE
    IN IF coinInfo = Undefined THEN Thrown(ErrorAbout("Coin not found", request.coin))
       ELSE IF Truthy(request.locktime) /\ locktime.nan
       THEN Thrown(Error("Locktime is not a number"))
       ELSE IF request.outputs.type # "array" THEN Thrown(Error("Outputs is not an Array"))
       ELSE IF parsed.thrown THEN Thrown(parsed.error)
       ELSE Returned([name |-> "composetx", useUi |-> TRUE, useDevice |-> TRUE,
                      requiredFirmware |-> "1.5.0",
                      input |-> [outputs |-> parsed.value.parsedOutputs,
                                 locktime |-> locktime,
                                 coinInfo |-> coinInfo,
                                 total |-> total,
                                 pushTransaction |-> pushTransaction]])

\* the request as params leaves it: line 371 writes the data of an OP_RETURN output
\* given as text, in hexadecimal, into the output itself
RequestAfterParams(request) ==
    IF ~OutputsRead(request) THEN request
    ELSE [request EXCEPT
             !.outputs = Array(ParseOutputs(request.outputs.items, 1,
                                            RequestCoinInfo(request),
                                            JsNumber(Number(0)), FALSE, <<>>).items)]

----------------------------------------------------------------------------
(* The requests params is called with *)

Output(type, data, dataFormat, address, amount) ==
    [type |-> type, data |-> data, dataFormat |-> dataFormat, address |-> address,
     amount |-> amount]

\* a text longer than 80 bytes
LongText == [i \in 1..(80 + 1) |-> "h"]

OpReturnOutputs ==
    {Output(Text("opreturn"), data, Undefined, Undefined, Undefined) :
        data \in {Undefined, Chars(<<"0", "0", "f", "f", "0", "A">>), Chars(<<"z", "z">>)}}
    \cup {Output(Text("opreturn"), Chars(text), Text("text"), Undefined, Undefined) :
             text \in {<<"h", "i">>, LongText}}

SendMaxOutputs == {Output(Text("send-max"), Undefined, Undefined, Text("1Payee"), Undefined)}

\* the amounts of the outputs: numbers, the negative and zero included, strings, none
Amounts ==
    {JsNumber(Number(n)) : n \in {0 - Amount, 0, Amount}}
    \cup {Chars(<<"5">>), Chars(<<"a">>), Undefined}

CompleteOutputs ==
    {Output(Text("complete"), Undefined, Undefined, address, amount) :
        address \in {Text("1Payee"), Text("mTestnet"), Undefined}, amount \in Amounts}

Outputs == OpReturnOutputs \cup SendMaxOutputs \cup CompleteOutputs

RawRequests ==
    [coin : {Text("Bitcoin"), Text("Nocoin"), Undefined},
     locktime : {Undefined, Chars(<<"7">>), Chars(<<"a">>)},
     outputs : {Undefined} \cup {Array(items) :
                   items \in UNION {[1..n -> Outputs] : n \in 0..MaxOutputs}},
     push : {Boolean(TRUE), Boolean(FALSE), Undefined}]

----------------------------------------------------------------------------
(* The call of params: before any session *)

ParamsInit ==
    /\ raw \in RawRequests
    /\ methodParams = Undefined
    /\ input = Undefined
    /\ pc = "params"
    /\ accounts = <<>>
    /\ discoveryCompleted = FALSE
    /\ selectedAccount = Undefined
    /\ txComposer = NoComposer
    /\ uiPromise = Pending
    /\ uiResponse = Undefined
    /\ discoveries = EmptyBag
    /\ view = Undefined
    /\ feeList = <<>>
    /\ posted = <<>>
    /\ tx = Undefined
    /\ signedtx = Undefined
    /\ outcome = [status |-> "pending"]
    /\ minFeeCalls = 0
    /\ signTxCalls = 0
    /\ sendCalls = 0
    /\ disposeCalls = 0

\* params was called and has not answered
ParamsCalled == pc = "params" /\ methodParams = Undefined

\* no session is started by params
NoSession ==
    UNCHANGED <<input, pc, accounts, discoveryCompleted, selectedAccount, txComposer,
                uiPromise, uiResponse, discoveries, view, feeList, posted, tx, signedtx,
                outcome, minFeeCalls, signTxCalls, sendCalls, disposeCalls>>

\* params returns the MethodParams (lines 435-451), the request as it left it
ParamsReturns ==
    /\ ParamsCalled
    /\ ~params(raw).thrown
    /\ methodParams' = params(raw)
    /\ raw' = RequestAfterParams(raw)
    /\ NoSession

\* params throws, the request as it left it
ParamsThrows ==
    /\ ParamsCalled
    /\ params(raw).thrown
    /\ methodParams' = params(raw)
    /\ raw' = RequestAfterParams(raw)
    /\ NoSession

ParamsNext == ParamsReturns \/ ParamsThrows

ParamsSpec == ParamsInit /\ [][ParamsNext]_vars

----------------------------------------------------------------------------
(* Notions the properties of params share *)

ParamsAnswered == methodParams # Undefined
Accepted == ParamsAnswered /\ ~methodParams.thrown
Rejects == ParamsAnswered /\ methodParams.thrown
SendMaxCount ==
    Cardinality({i \in 1..Len(raw.outputs.items) :
                    raw.outputs.items[i].type = Text("send-max")})
\* every amount the request declares is an integer
IntegerAmounts ==
    \A i \in 1..Len(raw.outputs.items) :
        raw.outputs.items[i].type = Text("complete")
            => /\ typeof(raw.outputs.items[i].amount) = "number"
               /\ ~raw.outputs.items[i].amount.nan

(* C14: whenever params accepts a request that has exactly one send-max     *)
(* output, the total of the MethodParams it returns is 0, whatever integer  *)
(* amounts (positive, zero or negative) the other outputs declare.          *)
C14_SendMaxTotalZero ==
    (Accepted /\ SendMaxCount = 1 /\ IntegerAmounts)
        => methodParams.value.input.total = JsNumber(Number(0))

(* C15: params rejects every request whose outputs are not a non-empty      *)
(* array: outputs that are missing or no array, and an empty array, are     *)
(* answered with an error, and no MethodParams (hence no session) comes of  *)
(* the request.                                                             *)
C15_OutputsMustBeNonEmpty ==
    (ParamsAnswered /\ (raw.outputs.type # "array" \/ raw.outputs.items = <<>>))
        => /\ Rejects
           /\ input = Undefined
           /\ pc = "params"

----------------------------------------------------------------------------
NotInitialized ==
    [status |-> "rejected", value |-> Error("TransactionComposer not initialized.")]

(* C16: a fee index or a custom fee received before any account was         *)
(* selected (txComposer not set) ends the session rejected with the error   *)
(* "TransactionComposer not initialized.": the event is not passed over,    *)
(* no transaction comes of it, nothing is posted and signTx is never        *)
(* called.                                                                  *)
C16_FeeBeforeSelectionIsAnError ==
    [][ /\ \A response \in UiResponses :
              ( /\ ~txComposer.defined
                /\ response.event = "RECEIVE_FEE"
                /\ response.data.type \in {"fee", "custom"}
                /\ composingCycle(response) )
              => /\ outcome' = NotInitialized
                 /\ pc' = "done"
                 /\ tx' = Undefined
                 /\ posted' = <<>>
                 /\ UNCHANGED <<txComposer, selectedAccount, feeList, view, signTxCalls>>
        /\ outcome' = NotInitialized
              => /\ pc' = "done"
                 /\ signTxCalls' = 0
                 /\ tx' = Undefined
                 /\ ~txComposer'.defined ]_vars

\* the discovery had found an account, none was selected, and a fee event ended the session
C16_Witness ==
    /\ outcome = NotInitialized
    /\ accounts # <<>>
    /\ uiResponse = [event |-> "RECEIVE_FEE"]
    /\ selectedAccount = Undefined

(* C17: signTx is called with a final transaction only: whatever the popup  *)
(* answers (the index of a slot that holds an error, an index outside the   *)
(* list, a fee answer of another type), the loop of composingCycle is never *)
(* left with an error or with undefined.                                    *)
C17_SigningOnlyWithFinal ==
    (LoopLeft \/ signTxCalls > 0) => tx.type = "final"

\* the method waits for an account again, after a change of account or after the
\* insufficient-funds view, the composer of the account left still set
BackToAccountSelection ==
    /\ Waiting
    /\ txComposer.defined
    /\ \/ uiResponse = [event |-> "CHANGE_ACCOUNT"]
       \/ view.type \in {"INSUFFICIENT_FUNDS", "SELECT_ACCOUNT"}

(* C18: the loop is left from the fee view only: once the method waits for  *)
(* an account again (after CHANGE_ACCOUNT, or after the insufficient-funds  *)
(* view), a fee index or a custom fee received before the next account      *)
(* selection neither ends the loop with, nor composes again, the results    *)
(* left by the account selected before.                                     *)
C18_NoStaleResultsAfterGoingBack ==
    [][ \A response \in UiResponses :
          ( /\ BackToAccountSelection
            /\ response.event = "RECEIVE_FEE"
            /\ response.data.type \in {"fee", "custom"}
            /\ composingCycle(response) )
          => /\ pc' # "cycle_done"
             /\ txComposer' = txComposer
             /\ \A i \in 1..Len(posted') : posted'[i].type # "UPDATE_CUSTOM_FEE" ]_vars

(* C19: at most one producer of the discovery runs at any time: the         *)
(* discovery is started again only when no producer runs (a CHANGE_ACCOUNT  *)
(* received while the first discovery runs included) and never once         *)
(* discoveryCompleted is true.                                              *)
C19_AtMostOneProducer ==
    [][ /\ BagCardinality(discoveries') <= 1
        /\ BagCardinality(discoveries') > BagCardinality(discoveries)
              => (discoveries = EmptyBag /\ ~discoveryCompleted) ]_vars

(* C20: when the popup answers the account view with the index of one of    *)
(* the rows of the latest SELECT_ACCOUNT posted (the row onStart adds for   *)
(* an account whose info is not known yet, and the rows of onComplete,      *)
(* included), the account selected is a defined element of accounts and is  *)
(* the account that row shows.                                              *)
C20_SelectedAccountIsRowShown ==
    [][ \A response \in UiResponses :
          LET index == parseInt(response.data.value)
          IN ( /\ Waiting
               /\ view.type = "SELECT_ACCOUNT"
               /\ response.event = "RECEIVE_ACCOUNT"
               /\ ~index.nan
               /\ index.n < Len(view.accounts)
               /\ composingCycle(response) )
             => /\ selectedAccount' # Undefined
                /\ index.n + 1 \in DOMAIN accounts
                /\ selectedAccount' = accounts[index.n + 1]
                /\ simpleAccount(selectedAccount') = view.accounts[index.n + 1] ]_vars

====
